---- MODULE Spec2Model ----
(***************************************************************************)
(* Agent lifecycle and execution tracking of the agent backend:           *)
(*   backend/models/database.py      tables agents, agent_executions      *)
(*   backend/models/agent.py         Agent.create / get_by_id / delete    *)
(*   backend/services/agent_runtime.py  execute_task, cancel_execution    *)
(*   backend/main.py                 request handlers                     *)
(* Every awaited database statement is one atomic step; the steps of      *)
(* concurrent requests interleave freely.                                  *)
(***************************************************************************)
EXTENDS Integers, Sequences, FiniteSets, TLC

\* ------------------------------------------------------------------ bounds
MaxAgents == 2      \* agent rows ever inserted (fresh ids 1..MaxAgents)
MaxTime == 0        \* the clock reads 0..MaxTime

AgentIds == 1..MaxAgents
Workers == {"w1", "w2"}     \* concurrent POST /api/agents/{id}/execute requests, one each
ExecIds == 1..Cardinality(Workers)   \* the uuid4 values execute_task draws
Creators == {"c1", "c2"}    \* concurrent POST /api/agents requests
Seeders == {"s1", "s2"}     \* processes running init_db at start-up

\* ------------------------------------------------------------ SQL NULL
Null == <<>>
Some(v) == <<v>>

\* ------------------------------------------------------------- inputs
\* request bodies of POST /api/agents (AgentCreate, defaults filled in)
AgentCreate(name, role, system_message, capabilities) ==
    [name |-> name, role |-> role, system_message |-> system_message,
     capabilities |-> capabilities, model |-> "llama-3.3-70b-versatile",
     provider |-> "groq", metadata |-> <<>>]

AgentInputs ==
    { AgentCreate("alpha", "assistant", "be helpful", <<>>),
      AgentCreate("alpha", "coder", "write code", <<"python", "python">>),
      AgentCreate("beta", "analyst", "analyse", <<"sql">>) }

\* request bodies the schema AgentCreate accepts although a field is empty,
\* the name has a space or the role is not one of valid_roles
InvalidInputs ==
    { AgentCreate("", "assistant", "be helpful", <<>>),
      AgentCreate("bad name", "assistant", "be helpful", <<>>),
      AgentCreate("gamma", "hacker", "break in", <<>>),
      AgentCreate("delta", "coder", "", <<>>) }

\* the client whose requests are followed one at a time
Client == "c1"

\* task payloads of POST /api/agents/{id}/execute (a dict; "type" is optional)
Tasks == { [content |-> "hi"], [type |-> "chat", content |-> "hi"] }

\* exceptions a role handler may raise (class Exception): args tuple
Errors == { [args |-> <<"boom">>], [args |-> <<>>] }

\* json.dumps: the text stored in a JSONB column
JsonDumps(v) == [json |-> v]

\* json.loads of a stored text
JsonLoads(text) == text.json

\* str(uuid)
StrId(id) == [str |-> id]

\* str(e) of an exception: its single argument, "" when it has none
Str(e) == IF Len(e.args) = 0 THEN "" ELSE e.args[1]

\* dict.get(key, default)
Get(d, key, default) == IF key \in DOMAIN d THEN d[key] ELSE default

\* the characters of the strings used as agent names
Chars(str) ==
    CASE str = "" -> <<>>
      [] str = "alpha" -> <<"a", "l", "p", "h", "a">>
      [] str = "beta" -> <<"b", "e", "t", "a">>
      [] str = "gamma" -> <<"g", "a", "m", "m", "a">>
      [] str = "delta" -> <<"d", "e", "l", "t", "a">>
      [] str = "bad name" -> <<"b", "a", "d", " ", "n", "a", "m", "e">>
      [] str = "agent-2_b" -> <<"a", "g", "e", "n", "t", "-", "2", "_", "b">>
      [] str = "_" -> <<"_">>

\* str.replace(ch, ""): every occurrence of ch removed
Remove(chars, ch) == SelectSeq(chars, LAMBDA c : c # ch)

\* the letters and digits occurring in those strings
AlnumChars == {"a", "b", "d", "e", "g", "h", "l", "m", "n", "p", "t", "2"}

\* str.isalnum(): at least one character and all of them letters or digits
IsAlnum(chars) == Len(chars) > 0 /\ \A i \in 1..Len(chars) : chars[i] \in AlnumChars

\* bool(agent_data.get(key)): the key is present with a non-empty value
Truthy(d, key) == key \in DOMAIN d /\ d[key] # ""

\* arguments of validate_agent_config: dicts, any key may be missing
ValidateInputs ==
    { [name |-> "alpha", role |-> "assistant", system_message |-> "be helpful"],
      [name |-> "alpha", role |-> "boss"],
      [name |-> "agent-2_b", role |-> "specialist", system_message |-> "x"],
      [name |-> "bad name", role |-> "", system_message |-> ""],
      [name |-> "_", role |-> "coder", system_message |-> "x"],
      [role |-> "hacker"] }

VARIABLES
    agents,        \* table agents: id -> row
    nextAgentId,   \* next value of gen_random_uuid() for agents
    executions,    \* table agent_executions: id -> row
    nextExecId,    \* next value of uuid.uuid4() in execute_task
    now,           \* the latest clock value read (NOW(), datetime.utcnow())
    exec,          \* per worker: the execute request in progress
    cancel,        \* the cancel_execution call in progress
    create,        \* per creator: the create_agent request in progress
    templates,     \* table agent_templates: id -> row
    nextTemplateId, \* next value of gen_random_uuid() for agent_templates
    seed,          \* per seeder: the insert_default_templates run in progress
    fromt,         \* the create_agent_from_template request in progress
    validation,    \* the last validate_agent_config call: its argument and result
    got,           \* the last GET /api/agents/{id} request: its id and response
    deleted,       \* the last DELETE /api/agents/{id} request: its id and response
    listing,       \* a client's list(0, k) and list(k, k) calls and their pages
    updated,       \* the last Agent.update call: its arguments and result
    stats,         \* the get_runtime_stats call in progress
    files,         \* the directory agents/ of the tool server: name -> config
    tool           \* the tool call in progress in the tool server

\* the state of the template store, the factory service and the read handlers
factoryVars == <<templates, nextTemplateId, seed, fromt, validation, got>>

\* the state of the agent store, the execution tracker and their handlers
storeVars == <<agents, nextAgentId, executions, nextExecId, now, exec, cancel, create>>

\* the state of the remaining store operations and of the tool server
opsVars == <<deleted, listing, updated, stats, files, tool>>

vars == <<agents, nextAgentId, executions, nextExecId, now, exec, cancel, create,
          templates, nextTemplateId, seed, fromt, validation, got,
          deleted, listing, updated, stats, files, tool>>

Terminal == {"completed", "failed", "cancelled"}

IdleExec == [pc |-> "idle", agent_record |-> Null, task |-> Null,
             execution_id |-> 0, outcome |-> Null, utcnow |-> 0, response |-> Null]

IdleCancel == [pc |-> "idle", execution_id |-> 0, seen |-> "none", utcnow |-> 0,
               result |-> Null]

IdleCreate == [pc |-> "idle", agent_data |-> Null, agent |-> Null, response |-> Null]

IdleSeed == [pc |-> "idle", i |-> 0]

IdleFrom == [pc |-> "idle", template_name |-> "", agent_name |-> "",
             customizations |-> Null, template |-> Null, agent_data |-> Null,
             response |-> Null]

IdleListing == [pc |-> "idle", k |-> 0, seen |-> Null, first |-> Null, second |-> Null]

IdleStats == [pc |-> "idle", total_executions |-> Null, executions_by_status |-> Null,
              recent_executions |-> Null, response |-> Null]

IdleTool == [pc |-> "idle", name |-> "", args |-> Null, result |-> Null, response |-> Null]

\* no request of these kinds made yet, the directory agents/ empty
InitOps ==
    /\ deleted = Null
    /\ listing = IdleListing
    /\ updated = Null
    /\ stats = IdleStats
    /\ files = <<>>
    /\ tool = IdleTool

\* the templates list of insert_default_templates
DefaultTemplates ==
    << [name |-> "generic_assistant", role |-> "assistant",
        system_message |-> "You are a helpful AI assistant. Provide clear, accurate, and friendly responses.",
        capabilities |-> <<>>,
        description |-> "General purpose AI assistant for various tasks",
        is_default |-> TRUE],
       [name |-> "code_specialist", role |-> "coder",
        system_message |-> "You are a coding specialist. Write clean, efficient, well-documented code. Explain your implementations.",
        capabilities |-> <<"python", "javascript", "debugging">>,
        description |-> "Specialized agent for coding and software development tasks",
        is_default |-> TRUE],
       [name |-> "research_analyst", role |-> "researcher",
        system_message |-> "You are a research analyst. Gather information, analyze data, and provide detailed insights with citations.",
        capabilities |-> <<"web_search", "data_analysis", "report_generation">>,
        description |-> "Research-focused agent for analysis and information gathering",
        is_default |-> TRUE] >>

\* the row INSERT INTO agent_templates (name, role, system_message, capabilities,
\* description, is_default) produces: id, created_at and metadata by default
TemplateRow(id, tpl, t) ==
    [id |-> id, name |-> tpl.name, role |-> tpl.role,
     system_message |-> tpl.system_message,
     capabilities |-> JsonDumps(tpl.capabilities), description |-> tpl.description,
     is_default |-> tpl.is_default, created_at |-> t, metadata |-> JsonDumps(<<>>)]

\* the template table one completed run of insert_default_templates leaves
SeededTemplates ==
    [i \in 1..Len(DefaultTemplates) |-> TemplateRow(i, DefaultTemplates[i], 0)]

\* the state after construction: init_db has created the empty tables
Init ==
    /\ agents = <<>>
    /\ nextAgentId = 1
    /\ executions = <<>>
    /\ nextExecId = 1
    /\ now = 0
    /\ exec = [p \in Workers |-> IdleExec]
    /\ cancel = IdleCancel
    /\ create = [c \in Creators |-> IdleCreate]
    /\ templates = <<>>
    /\ nextTemplateId = 1
    /\ seed = [x \in Seeders |-> IdleSeed]
    /\ fromt = IdleFrom
    /\ validation = Null
    /\ got = Null
    /\ InitOps

\* the clock never runs backwards: what a read at this point may return
Later == now..MaxTime

\* ------------------------------------------------ agents table (database.py)
\* variant: no UNIQUE constraint on agents.name
NameTaken_Never(name) == FALSE

\* the UNIQUE constraint on agents.name
NameTaken(name) == \E a \in DOMAIN agents : agents[a].name = name

\* the row INSERT INTO agents ... RETURNING * produces: column defaults filled in
AgentRow(id, d, t) ==
    [id |-> id, name |-> d.name, role |-> d.role, system_message |-> d.system_message,
     capabilities |-> JsonDumps(d.capabilities), model |-> d.model,
     provider |-> d.provider, code |-> Null, status |-> "created",
     created_at |-> t, updated_at |-> t, metadata |-> JsonDumps(d.metadata)]

\* variant: the status column left to its default 'pending'
ExecutionRow_DefaultStatus(agent_id, task, status, t) ==
    [agent_id |-> agent_id, task |-> JsonDumps(task), result |-> Null,
     status |-> "pending", started_at |-> t, completed_at |-> Null,
     error_message |-> Null, metadata |-> JsonDumps(<<>>)]

\* the row INSERT INTO agent_executions (id, agent_id, task, status) produces
ExecutionRow(agent_id, task, status, t) ==
    [agent_id |-> agent_id, task |-> JsonDumps(task), result |-> Null,
     status |-> status, started_at |-> t, completed_at |-> Null,
     error_message |-> Null, metadata |-> JsonDumps(<<>>)]

\* variant: no ON DELETE CASCADE, the executions of a deleted agent stay
CascadeDelete_None(a) == executions

\* ON DELETE CASCADE: the executions left once agent a is deleted
CascadeDelete(a) ==
    [e \in {x \in DOMAIN executions : executions[x].agent_id # a} |-> executions[e]]

\* ------------------------------------------ role handlers (agent_runtime.py)
_simulate_response(role, task) ==
    LET content == Get(task, "content", "") IN
    IF role = "assistant" THEN <<"As your assistant", content>>
    ELSE IF role = "coder" THEN <<"I've analyzed your coding request", content>>
    ELSE IF role = "researcher" THEN <<"I've initiated research on", content>>
    ELSE <<"I've received your task", content>>

_execute_agent_task_result(agent_record, task, t) ==
    [agent_name |-> agent_record.name, agent_role |-> agent_record.role,
     task_type |-> Get(task, "type", "unknown"),
     response |-> _simulate_response(agent_record.role, task),
     timestamp |-> t]

\* ------------------------------------ POST /api/agents/{id}/execute (main.py)
\* execute_agent: Agent.get_by_id, 404 when absent; execute_task then draws
\* its uuid4 execution id
execute_agent(p, agent_id, task) ==
    /\ exec[p].pc = "idle"
    /\ IF agent_id \in DOMAIN agents
       THEN /\ exec' = [exec EXCEPT ![p] =
                   [IdleExec EXCEPT !.pc = "insert",
                                    !.agent_record = Some(agents[agent_id]),
                                    !.task = Some(task),
                                    !.execution_id = nextExecId]]
            /\ nextExecId' = nextExecId + 1
       ELSE /\ exec' = [exec EXCEPT ![p] =
                   [IdleExec EXCEPT !.pc = "done",
                                    !.response = Some([status_code |-> 404])]]
            /\ UNCHANGED nextExecId
    /\ UNCHANGED <<agents, nextAgentId, executions, now, cancel, create, factoryVars, opsVars>>

\* execute_task: INSERT INTO agent_executions ... 'running'. The foreign key
\* rejects the row when the agent is gone; the statement is outside the try,
\* so execute_agent answers 500
execute_task_insert(p, t) ==
    LET r == exec[p] IN
    /\ r.pc = "insert"
    /\ IF r.agent_record[1].id \in DOMAIN agents
       THEN /\ executions' = executions @@
                   (r.execution_id :> ExecutionRow(r.agent_record[1].id, r.task[1], "running", t))
            /\ now' = t
            /\ exec' = [exec EXCEPT ![p].pc = "handler"]
       ELSE /\ exec' = [exec EXCEPT ![p] =
                   [IdleExec EXCEPT !.pc = "done",
                                    !.response = Some([status_code |-> 500])]]
            /\ t = now
            /\ UNCHANGED <<executions, now>>
    /\ UNCHANGED <<agents, nextAgentId, nextExecId, cancel, create, factoryVars, opsVars>>

\* _execute_agent_task returns its payload; execute_task evaluates
\* datetime.utcnow() and issues the success write
handler_returns(p, t) ==
    LET r == exec[p] IN
    /\ r.pc = "handler"
    /\ now' = t
    /\ exec' = [exec EXCEPT ![p] =
           [IdleExec EXCEPT !.pc = "write_completed", !.execution_id = r.execution_id,
                            !.outcome =
                                Some(_execute_agent_task_result(r.agent_record[1], r.task[1], t)),
                            !.utcnow = t]]
    /\ UNCHANGED <<agents, nextAgentId, executions, nextExecId, cancel, create, factoryVars, opsVars>>

\* _execute_agent_task raises an Exception; the except block evaluates
\* datetime.utcnow() and issues the failure write
handler_raises(p, e, t) ==
    /\ exec[p].pc = "handler"
    /\ now' = t
    /\ exec' = [exec EXCEPT ![p] =
           [IdleExec EXCEPT !.pc = "write_failed", !.execution_id = exec[p].execution_id,
                            !.outcome = Some(e), !.utcnow = t]]
    /\ UNCHANGED <<agents, nextAgentId, executions, nextExecId, cancel, create, factoryVars, opsVars>>

\* variant: the status is moved only from 'running'; result is written regardless
UpdateCompleted_KeepStatus(id, result, completed_at) ==
    IF id \in DOMAIN executions
    THEN [executions EXCEPT ![id].result = Some(JsonDumps(result)),
                            ![id].status = IF @ = "running" THEN "completed" ELSE @,
                            ![id].completed_at = Some(completed_at)]
    ELSE executions

\* UPDATE agent_executions SET result, status = 'completed', completed_at WHERE id
UpdateCompleted(id, result, completed_at) ==
    IF id \in DOMAIN executions
    THEN [executions EXCEPT ![id].result = Some(JsonDumps(result)),
                            ![id].status = "completed",
                            ![id].completed_at = Some(completed_at)]
    ELSE executions

\* variant: the error text is not stored
UpdateFailed_NoMessage(id, e, completed_at) ==
    IF id \in DOMAIN executions
    THEN [executions EXCEPT ![id].status = "failed",
                            ![id].completed_at = Some(completed_at)]
    ELSE executions

\* variant: the failure write leaves the status as it is
UpdateFailed_NoStatus(id, e, completed_at) ==
    IF id \in DOMAIN executions
    THEN [executions EXCEPT ![id].error_message = Some(Str(e)),
                            ![id].completed_at = Some(completed_at)]
    ELSE executions

\* UPDATE agent_executions SET status = 'failed', error_message, completed_at WHERE id
UpdateFailed(id, e, completed_at) ==
    IF id \in DOMAIN executions
    THEN [executions EXCEPT ![id].status = "failed",
                            ![id].error_message = Some(Str(e)),
                            ![id].completed_at = Some(completed_at)]
    ELSE executions

\* execute_task, lines 49-58: the success write
execute_task_write_completed(p) ==
    LET r == exec[p] IN
    /\ r.pc = "write_completed"
    /\ executions' = UpdateCompleted(r.execution_id, r.outcome[1], r.utcnow)
    /\ exec' = [exec EXCEPT ![p].pc = "return_completed", ![p].utcnow = 0]
    /\ UNCHANGED <<agents, nextAgentId, nextExecId, now, cancel, create, factoryVars, opsVars>>

\* execute_task, lines 66-77: the failure write
execute_task_write_failed(p) ==
    LET r == exec[p] IN
    /\ r.pc = "write_failed"
    /\ executions' = UpdateFailed(r.execution_id, r.outcome[1], r.utcnow)
    /\ exec' = [exec EXCEPT ![p].pc = "return_failed", ![p].utcnow = 0]
    /\ UNCHANGED <<agents, nextAgentId, nextExecId, now, cancel, create, factoryVars, opsVars>>

\* the dict execute_task returns on success (lines 60-64)
ReturnCompleted(execution_id, result) ==
    [execution_id |-> execution_id, status |-> "completed", result |-> result]

\* variant: the failure dict also carries a result key
ReturnFailed_WithResult(execution_id, e) ==
    [execution_id |-> execution_id, status |-> "failed", error |-> Str(e),
     result |-> Null]

\* the dict execute_task returns on failure (lines 79-83)
ReturnFailed(execution_id, e) ==
    [execution_id |-> execution_id, status |-> "failed", error |-> Str(e)]

\* execute_task returns; execute_agent wraps the value in {"result": ...}
execute_task_return(p) ==
    LET r == exec[p] IN
    /\ r.pc \in {"return_completed", "return_failed"}
    /\ exec' = [exec EXCEPT ![p] = [IdleExec EXCEPT
                            !.pc = "done",
                            !.response =
                                Some([status_code |-> 200,
                                      result |-> IF r.pc = "return_completed"
                                                 THEN ReturnCompleted(r.execution_id, r.outcome[1])
                                                 ELSE ReturnFailed(r.execution_id, r.outcome[1])])]]
    /\ UNCHANGED <<agents, nextAgentId, executions, nextExecId, now, cancel, create, factoryVars, opsVars>>

\* ------------------------------------------ cancel_execution (agent_runtime.py)
\* the status a caller sees when it decides to cancel
StatusOf(id) == IF id \in DOMAIN executions THEN executions[id].status ELSE "none"

\* a caller decides to cancel execution id and calls cancel_execution, which
\* evaluates datetime.utcnow() and issues the update
cancel_execution_call(id, t) ==
    /\ cancel.pc \in {"idle", "done"}
    /\ now' = t
    /\ cancel' = [IdleCancel EXCEPT !.pc = "update", !.execution_id = id,
                                    !.seen = StatusOf(id), !.utcnow = t]
    /\ UNCHANGED <<agents, nextAgentId, executions, nextExecId, exec, create, factoryVars, opsVars>>

\* variant: WHERE id = $2, the status guard dropped
CancelMatches_NoGuard(id) ==
    {x \in DOMAIN executions : x = id}

\* the rows UPDATE ... WHERE id = $2 AND status = 'running' matches
CancelMatches(id) ==
    {x \in DOMAIN executions : x = id /\ executions[x].status = "running"}

\* variant: SET status = 'cancelled' only, completed_at left alone
UpdateCancelled_NoCompletedAt(id, completed_at) ==
    [x \in DOMAIN executions |->
        IF x \in CancelMatches(id)
        THEN [executions[x] EXCEPT !.status = "cancelled"]
        ELSE executions[x]]

\* variant: WHERE status = 'running', every running record is cancelled
UpdateCancelled_AnyRunning(id, completed_at) ==
    [x \in DOMAIN executions |->
        IF executions[x].status = "running"
        THEN [executions[x] EXCEPT !.status = "cancelled",
                                   !.completed_at = Some(completed_at)]
        ELSE executions[x]]

\* UPDATE agent_executions SET status = 'cancelled', completed_at = $1 WHERE ...
UpdateCancelled(id, completed_at) ==
    [x \in DOMAIN executions |->
        IF x \in CancelMatches(id)
        THEN [executions[x] EXCEPT !.status = "cancelled",
                                   !.completed_at = Some(completed_at)]
        ELSE executions[x]]

\* the command tag asyncpg's execute returns
CommandTag(verb, rows) == <<verb, rows>>

\* cancel_execution, lines 208-217: the guarded update and result == "UPDATE 1"
cancel_execution_update ==
    /\ cancel.pc = "update"
    /\ executions' = UpdateCancelled(cancel.execution_id, cancel.utcnow)
    /\ cancel' = [cancel EXCEPT !.pc = "done", !.utcnow = 0,
                                !.result = Some(CommandTag("UPDATE",
                                                Cardinality(CancelMatches(cancel.execution_id)))
                                                = CommandTag("UPDATE", 1))]
    /\ UNCHANGED <<agents, nextAgentId, nextExecId, now, exec, create, factoryVars, opsVars>>

\* ---------------------------------------- DELETE /api/agents/{id} (main.py)
\* Agent.delete: DELETE FROM agents WHERE id; the executions cascade
delete_agent(agent_id) ==
    /\ agent_id \in DOMAIN agents
    /\ agents' = [a \in DOMAIN agents \ {agent_id} |-> agents[a]]
    /\ executions' = CascadeDelete(agent_id)
    /\ UNCHANGED <<nextAgentId, nextExecId, now, exec, cancel, create, factoryVars, opsVars>>

\* ------------------------------------------------ POST /api/agents (main.py)
\* Agent.create: INSERT INTO agents ... RETURNING *; a stored name violates
\* the UNIQUE constraint and create_agent answers 500
Agent_create(c, agent_data, t) ==
    /\ create[c].pc \in {"idle", "done"}
    /\ IF NameTaken(agent_data.name)
       THEN /\ create' = [create EXCEPT ![c] =
                   [IdleCreate EXCEPT !.pc = "done", !.agent_data = Some(agent_data),
                                      !.response = Some([status_code |-> 500,
                                                         detail |-> "UniqueViolationError"])]]
            /\ t = now
            /\ UNCHANGED <<agents, nextAgentId, now>>
       ELSE /\ nextAgentId <= MaxAgents
            /\ now' = t
            /\ agents' = agents @@ (nextAgentId :> AgentRow(nextAgentId, agent_data, t))
            /\ nextAgentId' = nextAgentId + 1
            /\ create' = [create EXCEPT ![c] =
                   [IdleCreate EXCEPT !.pc = "generate", !.agent_data = Some(agent_data),
                                      !.agent = Some(AgentRow(nextAgentId, agent_data, t))]]
    /\ UNCHANGED <<executions, nextExecId, exec, cancel, factoryVars, opsVars>>

\* create_agent, lines 76-85: generate_agent_code, then agent.code = agent_code on
\* the asyncpg Record raises AttributeError and the handler answers 500
create_agent_attach(c) ==
    /\ create[c].pc = "generate"
    /\ create' = [create EXCEPT ![c] =
           [IdleCreate EXCEPT !.pc = "done", !.agent_data = create[c].agent_data,
                              !.response = Some([status_code |-> 500,
                                                 detail |-> "AttributeError"])]]
    /\ UNCHANGED <<agents, nextAgentId, executions, nextExecId, now, exec, cancel, factoryVars, opsVars>>

\* ------------------------------- validate_agent_config (agent_factory.py)
\* valid_roles
valid_roles == <<"assistant", "coder", "researcher", "analyst", "specialist">>

\* ', '.join(valid_roles)
Join(roles) ==
    IF roles = valid_roles THEN "assistant, coder, researcher, analyst, specialist" ELSE ""

\* the elements of a list
Elems(seq) == {seq[i] : i \in 1..Len(seq)}

\* errors.append(...) when the condition holds
AppendIf(cond, msg) == IF cond THEN <<msg>> ELSE <<>>

\* variant: the first violated check ends the validation
validate_errors_FirstOnly(agent_data, stored) ==
    LET name == Get(agent_data, "name", "") IN
    IF ~Truthy(agent_data, "name") THEN << [msg |-> "Missing required field", arg |-> "name"] >>
    ELSE IF ~Truthy(agent_data, "role") THEN << [msg |-> "Missing required field", arg |-> "role"] >>
    ELSE IF ~Truthy(agent_data, "system_message")
         THEN << [msg |-> "Missing required field", arg |-> "system_message"] >>
    ELSE IF agent_data.role \notin Elems(valid_roles) THEN << [msg |-> "Invalid role. Must be one of", arg |-> Join(valid_roles)] >>
    ELSE IF ~IsAlnum(Remove(Remove(Chars(name), "_"), "-"))
         THEN << [msg |-> "Agent name must contain only letters, numbers, hyphens, and underscores", arg |-> ""] >>
    ELSE AppendIf(name \in stored, [msg |-> "Agent with name already exists", arg |-> name])

\* the errors list validate_agent_config builds; stored: the names the
\* SELECT id FROM agents WHERE name = $1 finds
validate_errors(agent_data, stored) ==
    LET name == Get(agent_data, "name", "") IN
    AppendIf(~Truthy(agent_data, "name"), [msg |-> "Missing required field", arg |-> "name"])
    \o AppendIf(~Truthy(agent_data, "role"), [msg |-> "Missing required field", arg |-> "role"])
    \o AppendIf(~Truthy(agent_data, "system_message"),
                [msg |-> "Missing required field", arg |-> "system_message"])
    \o AppendIf(Truthy(agent_data, "role") /\ agent_data.role \notin Elems(valid_roles),
                [msg |-> "Invalid role. Must be one of", arg |-> Join(valid_roles)])
    \o AppendIf(name # "" /\ ~IsAlnum(Remove(Remove(Chars(name), "_"), "-")),
                [msg |-> "Agent name must contain only letters, numbers, hyphens, and underscores", arg |-> ""])
    \o AppendIf(name # "" /\ name \in stored, [msg |-> "Agent with name already exists", arg |-> name])

\* validate_agent_config: the checks, the name lookup and the returned dict
validate_agent_config(agent_data) ==
    /\ validation = Null
    /\ got = Null
    /\ LET errors == validate_errors(agent_data, {agents[a].name : a \in DOMAIN agents}) IN
         validation' = Some([agent_data |-> agent_data,
                             result |-> [valid |-> Len(errors) = 0, errors |-> errors]])
    /\ UNCHANGED <<storeVars, templates, nextTemplateId, seed, fromt, got, opsVars>>

\* the caller has taken the result
validate_done ==
    /\ validation # Null
    /\ validation' = Null
    /\ UNCHANGED <<storeVars, templates, nextTemplateId, seed, fromt, got, opsVars>>

\* the agent store after two accepted creates ("alpha", then "beta") at time 0
SeedAgents ==
    (1 :> AgentRow(1, AgentCreate("alpha", "assistant", "be helpful", <<>>), 0))
    @@ (2 :> AgentRow(2, AgentCreate("beta", "analyst", "analyse", <<"sql">>), 0))

\* the service has started: init_db has seeded the templates, no agent yet
InitFactory ==
    /\ agents = <<>>
    /\ nextAgentId = 1
    /\ executions = <<>>
    /\ nextExecId = 1
    /\ now = 0
    /\ exec = [p \in Workers |-> IdleExec]
    /\ cancel = IdleCancel
    /\ create = [c \in Creators |-> IdleCreate]
    /\ templates = SeededTemplates
    /\ nextTemplateId = Len(DefaultTemplates) + 1
    /\ seed = [x \in Seeders |-> IdleSeed]
    /\ fromt = IdleFrom
    /\ validation = Null
    /\ got = Null
    /\ InitOps

\* the execution tracker starts on a store that already holds agents
InitTracker ==
    /\ now = 0
    /\ agents = SeedAgents
    /\ nextAgentId = 3
    /\ executions = <<>>
    /\ nextExecId = 1
    /\ exec = [p \in Workers |-> IdleExec]
    /\ cancel = IdleCancel
    /\ create = [c \in Creators |-> IdleCreate]
    /\ templates = SeededTemplates
    /\ nextTemplateId = Len(DefaultTemplates) + 1
    /\ seed = [x \in Seeders |-> IdleSeed]
    /\ fromt = IdleFrom
    /\ validation = Null
    /\ got = Null
    /\ InitOps

\* ------------------------------- generate_agent_code (agent_factory.py)
\* ", ".join(capabilities) if capabilities else "general assistance"
CapabilitiesLine(capabilities) ==
    IF Len(capabilities) = 0 THEN <<"general assistance">> ELSE capabilities

\* the text of generate_agent_code: the fixed f-string with its fields filled
\* in from the record
generate_agent_code(agent_record) ==
    LET capabilities == JsonLoads(agent_record.capabilities) IN
    [text |-> "agent_code",
     name |-> agent_record.name,
     role |-> agent_record.role,
     model |-> agent_record.model,
     system_message |-> agent_record.system_message,
     capabilities_line |-> CapabilitiesLine(capabilities),
     id |-> StrId(agent_record.id),
     capabilities |-> capabilities]

\* ------------------------------- GET /api/agents/{agent_id} (main.py)
\* AgentResponse.from_orm
from_orm(agent_record) ==
    [id |-> StrId(agent_record.id),
     name |-> agent_record.name,
     role |-> agent_record.role,
     system_message |-> agent_record.system_message,
     capabilities |-> JsonLoads(agent_record.capabilities),
     model |-> agent_record.model,
     provider |-> agent_record.provider,
     code |-> agent_record.code,
     status |-> agent_record.status,
     created_at |-> agent_record.created_at,
     updated_at |-> agent_record.updated_at,
     metadata |-> JsonLoads(agent_record.metadata)]

\* get_agent: Agent.get_by_id, 404 when there is no row, else the response model
get_agent(agent_id) ==
    /\ got = Null
    /\ validation = Null
    /\ got' = Some(IF agent_id \in DOMAIN agents
                   THEN [agent_id |-> agent_id, status_code |-> 200,
                         body |-> Some(from_orm(agents[agent_id]))]
                   ELSE [agent_id |-> agent_id, status_code |-> 404, body |-> Null])
    /\ UNCHANGED <<storeVars, templates, nextTemplateId, seed, fromt, validation, opsVars>>

\* the client has taken the response
get_agent_done ==
    /\ got # Null
    /\ got' = Null
    /\ UNCHANGED <<storeVars, templates, nextTemplateId, seed, fromt, validation, opsVars>>

\* ------------------------------- insert_default_templates (database.py)
\* variant: no row is ever found under a name, and no UNIQUE constraint
TemplateExists_Never(name) == FALSE

\* a row of agent_templates has this name (the SELECT of line 148, and the
\* UNIQUE constraint on agent_templates.name)
TemplateExists(name) == \E x \in DOMAIN templates : templates[x].name = name

\* the loop moves on to the next template, or the routine returns
SeedAdvance(r) ==
    IF r.i < Len(DefaultTemplates) THEN [pc |-> "check", i |-> r.i + 1]
    ELSE [pc |-> "done", i |-> 0]

\* init_db calls insert_default_templates: a start of the service
seed_start(x) ==
    /\ seed[x].pc \in {"idle", "done", "failed"}
    /\ seed' = [seed EXCEPT ![x] = [pc |-> "check", i |-> 1]]
    /\ UNCHANGED <<storeVars, templates, nextTemplateId, fromt, validation, got, opsVars>>

\* existing = SELECT id FROM agent_templates WHERE name = $1
seed_check(x) ==
    /\ seed[x].pc = "check"
    /\ seed' = [seed EXCEPT ![x] =
           IF TemplateExists(DefaultTemplates[seed[x].i].name)
           THEN SeedAdvance(seed[x])
           ELSE [seed[x] EXCEPT !.pc = "insert"]]
    /\ UNCHANGED <<storeVars, templates, nextTemplateId, fromt, validation, got, opsVars>>

\* if not existing: INSERT INTO agent_templates; a row inserted meanwhile under
\* the name violates the UNIQUE constraint and the routine ends with the error
seed_insert(x, t) ==
    /\ seed[x].pc = "insert"
    /\ IF TemplateExists(DefaultTemplates[seed[x].i].name)
       THEN /\ seed' = [seed EXCEPT ![x] = [pc |-> "failed", i |-> 0]]
            /\ t = now
            /\ UNCHANGED <<templates, nextTemplateId, now>>
       ELSE /\ templates' = templates @@
                   (nextTemplateId :> TemplateRow(nextTemplateId, DefaultTemplates[seed[x].i], t))
            /\ nextTemplateId' = nextTemplateId + 1
            /\ now' = t
            /\ seed' = [seed EXCEPT ![x] = SeedAdvance(seed[x])]
    /\ UNCHANGED <<agents, nextAgentId, executions, nextExecId, exec, cancel, create,
                   fromt, validation, got, opsVars>>

\* ------------------------------- create_from_template (agent_factory.py)
\* the dict get_template_by_name builds from the row
TemplateDict(row) ==
    [id |-> StrId(row.id), name |-> row.name, role |-> row.role,
     system_message |-> row.system_message,
     capabilities |-> JsonLoads(row.capabilities), description |-> row.description,
     is_default |-> row.is_default, created_at |-> row.created_at,
     metadata |-> JsonLoads(row.metadata)]

\* get_template_by_name: the row found, as a dict, or None
get_template_by_name(template_name) ==
    IF TemplateExists(template_name)
    THEN Some(TemplateDict(templates[CHOOSE x \in DOMAIN templates :
                                         templates[x].name = template_name]))
    ELSE Null

\* list(a_set): the elements in any order
ListsOf(S) == {l \in [1..Cardinality(S) -> S] : Elems(l) = S}

\* variant: the customization replaces the template's capabilities
MergeCapabilities_Replace(existing, new) == ListsOf(Elems(new))

\* list(existing_caps.union(new_caps))
MergeCapabilities(existing, new) == ListsOf(Elems(existing) \cup Elems(new))

\* dict.update
Update(d, other) ==
    [k \in DOMAIN d \cup DOMAIN other |-> IF k \in DOMAIN other THEN other[k] ELSE d[k]]

\* "customizations" bodies of POST /api/agents/from-template; None is Null
Customizations ==
    { Null,
      [capabilities |-> <<"python", "testing">>, system_message |-> "Review code only."],
      [role |-> "hacker"],
      [role |-> "analyst"],
      [metadata |-> [team |-> "core"]],
      [metadata |-> [created_from_template |-> "by hand", template_id |-> StrId(0)]] }

\* template_name and agent_name parameters of the request
TemplateNames == {"code_specialist", "no_such_template"}

AgentNames == {"alpha"}

\* the customizations sent while services are still starting up
StartupCustomizations ==
    { [capabilities |-> <<"python">>],
      [metadata |-> [team |-> "core"]] }

\* the agent_data dicts create_from_template may return for a found template
FromTemplateData(template, template_name, agent_name, customizations) ==
    LET base == [name |-> agent_name,
                 role |-> template.role,
                 system_message |-> template.system_message,
                 model |-> "llama-3.3-70b-versatile",
                 provider |-> "groq"]
        system_message == IF "system_message" \in DOMAIN customizations
                          THEN customizations.system_message ELSE base.system_message
        role == IF "role" \in DOMAIN customizations THEN customizations.role ELSE base.role
        capabilities == IF "capabilities" \in DOMAIN customizations
                        THEN MergeCapabilities(template.capabilities,
                                               customizations.capabilities)
                        ELSE {template.capabilities}
        meta == [created_from_template |-> template_name, template_id |-> template.id]
        metadata == IF "metadata" \in DOMAIN customizations
                    THEN Update(meta, customizations.metadata) ELSE meta
    IN  { [name |-> base.name, role |-> role, system_message |-> system_message,
           capabilities |-> c, model |-> base.model, provider |-> base.provider,
           metadata |-> metadata] : c \in capabilities }

\* create_agent_from_template, lines 181-183: create_from_template looks the
\* template up, raises ValueError when there is none (answered 500 by the
\* handler's except) and builds agent_data
create_from_template(template_name, agent_name, customizations) ==
    /\ fromt.pc \in {"idle", "done"}
    /\ LET template == get_template_by_name(template_name) IN
       IF template = Null
       THEN fromt' = [IdleFrom EXCEPT !.pc = "done",
                                      !.response = Some([status_code |-> 500,
                                                         detail |-> "Template not found",
                                                         body |-> Null])]
       ELSE \E d \in FromTemplateData(template[1], template_name, agent_name, customizations) :
               fromt' = [IdleFrom EXCEPT !.pc = "create", !.template_name = template_name,
                                         !.agent_name = agent_name,
                                         !.customizations = customizations,
                                         !.template = template,
                                         !.agent_data = Some(d)]
    /\ UNCHANGED <<storeVars, templates, nextTemplateId, seed, validation, got, opsVars>>

\* create_agent_from_template, lines 185-191: Agent.create(AgentCreate(**agent_data))
\* and the response; a stored name violates UNIQUE and is answered 500
create_agent_from_template(t) ==
    /\ fromt.pc = "create"
    /\ IF NameTaken(fromt.agent_name)
       THEN /\ fromt' = [IdleFrom EXCEPT !.pc = "done",
                                      !.response = Some([status_code |-> 500,
                                                         detail |-> "UniqueViolationError",
                                                         body |-> Null])]
            /\ t = now
            /\ UNCHANGED <<agents, nextAgentId, now>>
       ELSE /\ nextAgentId <= MaxAgents
            /\ now' = t
            /\ agents' = agents @@ (nextAgentId :> AgentRow(nextAgentId, fromt.agent_data[1], t))
            /\ nextAgentId' = nextAgentId + 1
            /\ fromt' = [IdleFrom EXCEPT !.pc = "done",
                                      !.response =
                                          Some([status_code |-> 200, detail |-> "",
                                                body |-> Some(from_orm(
                                                    AgentRow(nextAgentId, fromt.agent_data[1], t)))])]
    /\ UNCHANGED <<executions, nextExecId, exec, cancel, create,
                   templates, nextTemplateId, seed, validation, got, opsVars>>

\* ------------------------------- a store with a history (earlier requests)
\* two agents created at time -4
HistoryAgents ==
    (1 :> AgentRow(1, AgentCreate("alpha", "assistant", "be helpful", <<>>), -4))
    @@ (2 :> AgentRow(2, AgentCreate("beta", "analyst", "analyse", <<"sql">>), -4))

\* four execute_task calls made since: one completed after 2 time units, one
\* failed after 1, one cancelled at once, one still running in worker w1
HistoryExecutions ==
    (1 :> [ExecutionRow(1, [content |-> "hi"], "running", -3) EXCEPT
              !.status = "completed", !.completed_at = Some(-1),
              !.result = Some(JsonDumps(_execute_agent_task_result(
                                  HistoryAgents[1], [content |-> "hi"], -1)))])
    @@ (2 :> [ExecutionRow(1, [content |-> "hi"], "running", -3) EXCEPT
              !.status = "failed", !.completed_at = Some(-2),
              !.error_message = Some("boom")])
    @@ (3 :> [ExecutionRow(2, [content |-> "hi"], "running", -1) EXCEPT
              !.status = "cancelled", !.completed_at = Some(-1)])
    @@ (4 :> ExecutionRow(2, [content |-> "hi"], "running", 0))

HistoryExecIds == DOMAIN HistoryExecutions

\* the service has run for a while: agents and execution records are stored
InitHistory ==
    /\ now = 0
    /\ agents = HistoryAgents
    /\ nextAgentId = 3
    /\ executions = HistoryExecutions
    /\ nextExecId = 5
    /\ exec = [p \in Workers |->
                 IF p = "w1"
                 THEN [IdleExec EXCEPT !.pc = "handler",
                                       !.agent_record = Some(HistoryAgents[2]),
                                       !.task = Some([content |-> "hi"]),
                                       !.execution_id = 4]
                 ELSE IdleExec]
    /\ cancel = IdleCancel
    /\ create = [c \in Creators |-> IdleCreate]
    /\ templates = SeededTemplates
    /\ nextTemplateId = Len(DefaultTemplates) + 1
    /\ seed = [x \in Seeders |-> IdleSeed]
    /\ fromt = IdleFrom
    /\ validation = Null
    /\ got = Null
    /\ InitOps

\* ------------------------------- DELETE /api/agents/{id}, with its response
\* variant: the command tag always reports one row
DeleteTag_One(agent_id) == CommandTag("DELETE", 1)

\* the command tag of DELETE FROM agents WHERE id = $1
DeleteTag(agent_id) ==
    CommandTag("DELETE", Cardinality({a \in DOMAIN agents : a = agent_id}))

\* delete_agent: Agent.delete returns result == "DELETE 1"; 404 when it is false
delete_agent_request(agent_id) ==
    LET success == DeleteTag(agent_id) = CommandTag("DELETE", 1) IN
    /\ agents' = [a \in DOMAIN agents \ {agent_id} |-> agents[a]]
    /\ executions' = CascadeDelete(agent_id)
    /\ deleted' = Some([agent_id |-> agent_id, success |-> success,
                        status_code |-> IF success THEN 200 ELSE 404])
    /\ UNCHANGED <<nextAgentId, nextExecId, now, exec, cancel, create, factoryVars,
                   listing, updated, stats, files, tool>>

\* ------------------------------- Agent.update (agent.py)
\* "updates" arguments of Agent.update: the fields to set
Updates ==
    { <<>>,
      [role |-> "coder"],
      [system_message |-> "be brief", capabilities |-> <<"sql", "python">>],
      [metadata |-> [team |-> "core"], status |-> "active"],
      [name |-> "beta", role |-> "researcher"] }

\* the value bound for a key: lists and dicts of capabilities and metadata go
\* through json.dumps
SetValue(key, value) ==
    IF key \in {"capabilities", "metadata"} THEN JsonDumps(value) ELSE value

\* variant: updated_at is not part of the SET clause
UpdateRow_NoTouch(row, updates, t) ==
    [f \in DOMAIN row |->
        IF f \in DOMAIN updates THEN SetValue(f, updates[f]) ELSE row[f]]

\* the row after UPDATE agents SET key = value, ..., updated_at = now
UpdateRow(row, updates, t) ==
    [f \in DOMAIN row |->
        IF f = "updated_at" THEN t
        ELSE IF f \in DOMAIN updates THEN SetValue(f, updates[f]) ELSE row[f]]

\* the UPDATE would store a name another agent has
NameCollides(agent_id, updates) ==
    /\ "name" \in DOMAIN updates
    /\ \E a \in DOMAIN agents : a # agent_id /\ agents[a].name = updates.name

\* Agent.update: datetime.utcnow(), then UPDATE ... WHERE id RETURNING *: the
\* row, None when no row has the id, UniqueViolationError for a stored name
Agent_update(agent_id, updates, t) ==
    /\ IF agent_id \notin DOMAIN agents
       THEN /\ updated' = Some([agent_id |-> agent_id, updates |-> updates,
                                outcome |-> "None", row |-> Null])
            /\ UNCHANGED agents
       ELSE IF NameCollides(agent_id, updates)
       THEN /\ updated' = Some([agent_id |-> agent_id, updates |-> updates,
                                outcome |-> "UniqueViolationError", row |-> Null])
            /\ UNCHANGED agents
       ELSE /\ agents' = [agents EXCEPT ![agent_id] = UpdateRow(@, updates, t)]
            /\ updated' = Some([agent_id |-> agent_id, updates |-> updates,
                                outcome |-> "row",
                                row |-> Some(UpdateRow(agents[agent_id], updates, t))])
    /\ now' = t
    /\ UNCHANGED <<nextAgentId, executions, nextExecId, exec, cancel, create, factoryVars,
                   deleted, listing, stats, files, tool>>

\* ------------------------------- GET /api/agents (main.py), Agent.list
\* the orders ORDER BY created_at DESC may return the rows in: rows with equal
\* created_at come in any order, which may differ from one query to the next
OrderedByCreatedAtDesc ==
    {l \in ListsOf(DOMAIN agents) :
        \A i, j \in 1..Len(l) : i < j => agents[l[i]].created_at >= agents[l[j]].created_at}

\* OFFSET skip LIMIT limit of the ordered rows
Slice(l, skip, limit) ==
    [i \in 1..(IF Len(l) <= skip THEN 0
               ELSE IF Len(l) - skip < limit THEN Len(l) - skip ELSE limit) |-> l[skip + i]]

\* the pages list_agents(skip, limit) may answer with
Agent_list(skip, limit) ==
    { [i \in 1..Len(Slice(l, skip, limit)) |-> from_orm(agents[Slice(l, skip, limit)[i]])] :
        l \in OrderedByCreatedAtDesc }

\* a client asks for the first page, list(0, k)
list_agents_first(k) ==
    /\ listing.pc \in {"idle", "done"}
    /\ \E page \in Agent_list(0, k) :
          listing' = [IdleListing EXCEPT !.pc = "first", !.k = k, !.seen = Some(agents),
                                         !.first = Some(page)]
    /\ UNCHANGED <<storeVars, factoryVars, deleted, updated, stats, files, tool>>

\* the client asks for the next page, list(k, k)
list_agents_second ==
    /\ listing.pc = "first"
    /\ \E page \in Agent_list(listing.k, listing.k) :
          listing' = [listing EXCEPT !.pc = "done", !.second = Some(page)]
    /\ UNCHANGED <<storeVars, factoryVars, deleted, updated, stats, files, tool>>

\* ------------------------------- get_runtime_stats (agent_runtime.py)
\* INTERVAL '24 hours', in time units
Day == 2

RECURSIVE SumDurations(_)
\* SUM(completed_at - started_at) over the records ids
SumDurations(ids) ==
    IF ids = {} THEN 0
    ELSE LET e == CHOOSE x \in ids : TRUE IN
         (executions[e].completed_at[1] - executions[e].started_at)
             + SumDurations(ids \ {e})

RECURSIVE Gcd(_, _)
Gcd(a, b) == IF b = 0 THEN a ELSE Gcd(b, a % b)

\* the number sum / count, in lowest terms
Fraction(sum, count) ==
    LET g == Gcd(IF sum < 0 THEN -sum ELSE sum, count) IN
    [num |-> sum \div g, den |-> count \div g]

\* float(avg_seconds) if avg_seconds else 0: AVG is NULL over no rows
AverageOf(ids) ==
    IF ids = {} \/ SumDurations(ids) = 0 THEN [num |-> 0, den |-> 1]
    ELSE Fraction(SumDurations(ids), Cardinality(ids))

\* variant: WHERE completed_at IS NOT NULL, every finished record counted
AveragedRows_AllFinished ==
    {e \in DOMAIN executions : executions[e].completed_at # Null}

\* the rows WHERE status = 'completed' AND completed_at IS NOT NULL selects
AveragedRows ==
    {e \in DOMAIN executions :
        executions[e].status = "completed" /\ executions[e].completed_at # Null}

\* SELECT status, COUNT(*) ... GROUP BY status: one row per status present (the
\* rows come in no particular order)
GroupByStatus ==
    {[status |-> st,
      count |-> Cardinality({e \in DOMAIN executions : executions[e].status = st})] :
        st \in {executions[e].status : e \in DOMAIN executions}}

\* get_runtime_stats, first query: SELECT COUNT(*) FROM agent_executions
stats_total ==
    /\ stats.pc \in {"idle", "done"}
    /\ stats' = [IdleStats EXCEPT !.pc = "by_status",
                                  !.total_executions = Some(Cardinality(DOMAIN executions))]
    /\ UNCHANGED <<storeVars, factoryVars, deleted, listing, updated, files, tool>>

\* second query: the counts by status
stats_by_status ==
    /\ stats.pc = "by_status"
    /\ stats' = [stats EXCEPT !.pc = "recent", !.executions_by_status = Some(GroupByStatus)]
    /\ UNCHANGED <<storeVars, factoryVars, deleted, listing, updated, files, tool>>

\* third query: the records started within 24 hours of NOW()
stats_recent(t) ==
    /\ stats.pc = "recent"
    /\ now' = t
    /\ stats' = [stats EXCEPT !.pc = "average",
                    !.recent_executions =
                        Some(Cardinality({e \in DOMAIN executions :
                                              executions[e].started_at >= t - Day}))]
    /\ UNCHANGED <<agents, nextAgentId, executions, nextExecId, exec, cancel, create,
                   factoryVars, deleted, listing, updated, files, tool>>

\* fourth query, the average over completed records, and the returned dict
stats_average ==
    /\ stats.pc = "average"
    /\ stats' = [IdleStats EXCEPT !.pc = "done",
                    !.response =
                        Some([total_executions |-> stats.total_executions[1],
                              executions_by_status |-> stats.executions_by_status[1],
                              recent_executions |-> stats.recent_executions[1],
                              average_execution_time_seconds |-> AverageOf(AveragedRows)])]
    /\ UNCHANGED <<storeVars, factoryVars, deleted, listing, updated, files, tool>>

\* ------------------------------- the tool server (agent_factory_mcp.py)
\* call_backend_api, the except branch: the backend cannot be reached
BackendUnavailable == [kind |-> "dict", error |-> Some("Backend API unavailable")]

\* call_backend_api: a response with a status other than 200
ApiCallFailed(status) ==
    [kind |-> "dict", error |-> Some("API call failed with status"),
     status |-> status]

\* call_backend_api: the JSON body of a 200 response
ApiJson(kind, body) == [kind |-> kind, error |-> Null, body |-> body]

\* "error" not in result (for a list: no element is the string "error")
NoError(result) == result.error = Null

\* the status code the backend's create_agent answers POST /api/agents with:
\* 500 for a stored name, and 500 after the insert (create_agent_attach)
CreateAgentStatus(name) == 500

\* AGENTS_DIR / f"{name}.json"
ConfigPath(name) == <<"agents", name, ".json">>

\* the agent_config dict written to the file
AgentConfig(d) ==
    [name |-> d.name, role |-> d.role, system_message |-> d.system_message,
     capabilities |-> d.capabilities, model |-> "llama-3.3-70b-versatile",
     provider |-> "groq"]

\* the code text of the file-storage branch: the f-string with its fields
FileAgentCode(d) ==
    [text |-> "agent_code (File Storage)", name |-> d.name, role |-> d.role,
     system_message |-> d.system_message,
     capabilities_line |-> CapabilitiesLine(d.capabilities),
     capabilities |-> d.capabilities]

\* variant: the configuration is not saved
WriteConfig_Skip(d, t) == files

\* open(config_path, 'w'); json.dump(agent_config, f): the file is created or
\* overwritten
WriteConfig(d, t) ==
    [p \in DOMAIN files \cup {ConfigPath(d.name)} |->
        IF p = ConfigPath(d.name)
        THEN [text |-> JsonDumps(AgentConfig(d)), st_mtime |-> t]
        ELSE files[p]]

\* what the service at BACKEND_URL does with POST /api/agents: it cannot be
\* reached, or it answers with a status other than 200, as create_agent of
\* this repository does
BackendAnswers == {"unavailable", "rejected"}

\* the answers of any service at BACKEND_URL: also status 200 with the
\* AgentResponse of the stored agent, the return of create_agent (main.py)
ServiceAnswers == BackendAnswers \cup {"accepted"}

\* the row a backend that answers 200 has stored: the code attached
AcceptedRow(id, d, t) ==
    LET row == AgentRow(id, AgentCreate(d.name, d.role, d.system_message,
                                        d.capabilities), t) IN
    [row EXCEPT !.code = Some(generate_agent_code(row))]

\* create_new_agent: POST /api/agents through call_backend_api; with an
\* "error" in the result the configuration is written to agents/<name>.json
create_new_agent(d, answer, t) ==
    LET inserts == answer # "unavailable" /\ ~NameTaken(d.name)
        row == IF answer = "accepted"
               THEN AcceptedRow(nextAgentId, d, t)
               ELSE AgentRow(nextAgentId,
                             AgentCreate(d.name, d.role, d.system_message,
                                         d.capabilities), t)
        result == CASE answer = "unavailable" -> BackendUnavailable
                    [] answer = "rejected" -> ApiCallFailed(CreateAgentStatus(d.name))
                    [] answer = "accepted" -> ApiJson("dict", from_orm(row))
    IN
    /\ answer = "accepted" => ~NameTaken(d.name)
    /\ inserts => nextAgentId <= MaxAgents
    /\ agents' = IF inserts THEN agents @@ (nextAgentId :> row) ELSE agents
    /\ nextAgentId' = IF inserts THEN nextAgentId + 1 ELSE nextAgentId
    /\ now' = t
    /\ IF NoError(result)
       THEN /\ tool' = [IdleTool EXCEPT !.pc = "done", !.name = "create_new_agent",
                           !.args = Some(d), !.result = Some(result),
                           !.response = Some([status |-> "success",
                                              code |-> IF result.body.code # Null
                                                       THEN result.body.code[1]
                                                       ELSE [text |-> "null"],
                                              agent_id |-> result.body.id,
                                              database |-> TRUE])]
            /\ UNCHANGED files
       ELSE /\ files' = WriteConfig(d, t)
            /\ tool' = [IdleTool EXCEPT !.pc = "done", !.name = "create_new_agent",
                           !.args = Some(d), !.result = Some(result),
                           !.response = Some([status |-> "success",
                                              code |-> FileAgentCode(d),
                                              config_path |-> ConfigPath(d.name),
                                              database |-> FALSE])]
    /\ UNCHANGED <<executions, nextExecId, exec, cancel, create, factoryVars,
                   deleted, listing, updated, stats>>

\* the code text get_agent_code regenerates from a configuration
RegeneratedCode(name, agent_config) ==
    [text |-> "agent_code (regenerated)", name |-> name,
     system_message |-> agent_config.system_message,
     capabilities_line |-> CapabilitiesLine(agent_config.capabilities)]

\* get_agent_code: the file agents/<name>.json is read; without it the
\* answer is the error "not found"
get_agent_code(name) ==
    /\ tool' = [IdleTool EXCEPT !.pc = "done", !.name = "get_agent_code",
                   !.args = Some([name |-> name]),
                   !.response =
                       Some(IF ConfigPath(name) \notin DOMAIN files
                            THEN [status |-> "error", message |-> "not found",
                                  name |-> name]
                            ELSE LET agent_config == JsonLoads(files[ConfigPath(name)].text) IN
                                 [status |-> "success",
                                  code |-> RegeneratedCode(name, agent_config),
                                  config |-> agent_config])]
    /\ UNCHANGED <<storeVars, factoryVars, deleted, listing, updated, stats, files>>

\* the entry list_agents builds from one configuration file
FileEntry(p) ==
    LET agent_config == JsonLoads(files[p].text) IN
    [name |-> agent_config.name, role |-> agent_config.role,
     capabilities |-> agent_config.capabilities,
     created_at |-> files[p].st_mtime, source |-> "file"]

\* list_agents of the tool server: GET /api/agents through call_backend_api
\* (the default page, limit 100); with an "error" in the result the files
\* AGENTS_DIR.glob("*.json") yields are read, in the order glob yields them
mcp_list_agents(reachable) ==
    /\ \E page \in Agent_list(0, 100), order \in ListsOf(DOMAIN files) :
          LET result == IF reachable THEN ApiJson("list", page) ELSE BackendUnavailable IN
          tool' = [IdleTool EXCEPT !.pc = "done", !.name = "list_agents",
                      !.result = Some(result),
                      !.response =
                          Some(IF NoError(result) /\ result.kind = "list"
                               THEN [total |-> Len(result.body), agents |-> result.body,
                                     source |-> "database"]
                               ELSE [total |-> Len(order),
                                     agents |-> [i \in 1..Len(order) |-> FileEntry(order[i])],
                                     source |-> "file"])]
    /\ UNCHANGED <<storeVars, factoryVars, deleted, listing, updated, stats, files>>

\* the agent store: create and delete requests
NextStore ==
    \/ \E a \in AgentIds : delete_agent(a)
    \/ \E c \in Creators, d \in AgentInputs, t \in Later : Agent_create(c, d, t)
    \/ \E c \in Creators : create_agent_attach(c)

SpecStore == Init /\ [][NextStore]_vars

\* one client creating, validating, reading and deleting agents
NextCreate ==
    \/ \E d \in AgentInputs \cup InvalidInputs, t \in Later : Agent_create(Client, d, t)
    \/ create_agent_attach(Client)
    \/ \E d \in ValidateInputs : validate_agent_config(d)
    \/ validate_done
    \/ \E a \in AgentIds : get_agent(a)
    \/ get_agent_done
    \/ \E a \in AgentIds : delete_agent(a)

SpecCreate == Init /\ [][NextCreate]_vars

\* a started service: requests to create from a template and to delete agents
NextFactory ==
    \/ \E tn \in TemplateNames, an \in AgentNames, cu \in Customizations :
          create_from_template(tn, an, cu)
    \/ \E t \in Later : create_agent_from_template(t)
    \/ \E a \in AgentIds : delete_agent(a)

SpecFactory == InitFactory /\ [][NextFactory]_vars

\* two services starting up on one database, any number of times, while
\* requests to create from a template are served
NextSeed ==
    \/ \E x \in Seeders : seed_start(x)
    \/ \E x \in Seeders : seed_check(x)
    \/ \E x \in Seeders, t \in Later : seed_insert(x, t)
    \/ \E cu \in StartupCustomizations :
          create_from_template("code_specialist", "alpha", cu)
    \/ \E t \in Later : create_agent_from_template(t)
    \/ \E a \in AgentIds : delete_agent(a)

SpecSeed == Init /\ [][NextSeed]_vars

\* a service with a history: agents are updated and deleted
NextMaintain ==
    \/ \E a \in AgentIds : delete_agent_request(a)
    \/ \E a \in AgentIds, u \in Updates, t \in Later : Agent_update(a, u, t)

SpecMaintain == InitHistory /\ [][NextMaintain]_vars

\* the page sizes a client asks for
PageSizes == 1..(MaxAgents - 1)

\* agents are created while a client pages through the list
NextList ==
    \/ \E d \in AgentInputs, t \in Later : Agent_create(Client, d, t)
    \/ create_agent_attach(Client)
    \/ \E k \in PageSizes : list_agents_first(k)
    \/ list_agents_second

SpecList == Init /\ [][NextList]_vars

\* a new service, or one with a history
InitStats == Init \/ InitHistory

\* statistics are read while worker w1 finishes its task, executions are
\* cancelled and agents deleted
NextStats ==
    \/ stats_total
    \/ stats_by_status
    \/ \E t \in Later : stats_recent(t)
    \/ stats_average
    \/ \E p \in Workers, t \in Later : handler_returns(p, t)
    \/ \E p \in Workers, e \in Errors, t \in Later : handler_raises(p, e, t)
    \/ \E p \in Workers : execute_task_write_completed(p)
    \/ \E p \in Workers : execute_task_write_failed(p)
    \/ \E p \in Workers : execute_task_return(p)
    \/ \E id \in HistoryExecIds, t \in Later : cancel_execution_call(id, t)
    \/ cancel_execution_update
    \/ \E a \in AgentIds : delete_agent(a)

SpecStats == InitStats /\ [][NextStats]_vars

\* the tool server creates and lists agents; the backend is reachable for
\* some calls and not for others
NextTool ==
    \/ \E d \in AgentInputs, answer \in BackendAnswers, t \in Later :
          create_new_agent(d, answer, t)
    \/ \E reachable \in BOOLEAN : mcp_list_agents(reachable)

SpecTool == Init /\ [][NextTool]_vars

\* the names get_agent_code is asked for
ToolNames == {"alpha", "beta"}

\* the tool server with any service at BACKEND_URL: agents are created and
\* their code is retrieved
NextRetrieve ==
    \/ \E d \in AgentInputs, answer \in ServiceAnswers, t \in Later :
          create_new_agent(d, answer, t)
    \/ \E name \in ToolNames : get_agent_code(name)

SpecRetrieve == Init /\ [][NextRetrieve]_vars

\* the execution tracker: execute, cancel and delete requests
Next ==
    \/ \E p \in Workers, a \in AgentIds, t \in Tasks : execute_agent(p, a, t)
    \/ \E p \in Workers, t \in Later : execute_task_insert(p, t)
    \/ \E p \in Workers, t \in Later : handler_returns(p, t)
    \/ \E p \in Workers, e \in Errors, t \in Later : handler_raises(p, e, t)
    \/ \E p \in Workers : execute_task_write_completed(p)
    \/ \E p \in Workers : execute_task_write_failed(p)
    \/ \E p \in Workers : execute_task_return(p)
    \/ \E id \in ExecIds, t \in Later : cancel_execution_call(id, t)
    \/ cancel_execution_update
    \/ \E a \in AgentIds : delete_agent(a)

Spec == InitTracker /\ [][Next]_vars

\* the role handler of a started execution terminates, by returning or by
\* raising, and the awaited store statements of execute_task complete
HandlerTerminates(p) ==
    \/ \E t \in Later : handler_returns(p, t)
    \/ \E e \in Errors, t \in Later : handler_raises(p, e, t)

StoreAcceptsWrites(p) ==
    \/ execute_task_write_completed(p)
    \/ execute_task_write_failed(p)

FairExecution ==
    \A p \in Workers :
        /\ WF_vars(HandlerTerminates(p))
        /\ WF_vars(StoreAcceptsWrites(p))
        /\ WF_vars(execute_task_return(p))

\* the execution tracker under terminating handlers and an accepting store
SpecLive == InitTracker /\ [][Next]_vars /\ FairExecution

\* ======================================================== properties
\* the cancel_execution update is the step taken
CancelStep == cancel.pc = "update" /\ cancel'.pc = "done"

\* the four outcome fields of a record
Outcome(r) == <<r.status, r.result, r.error_message, r.completed_at>>

\* C1: once an execution record is completed, failed or cancelled, no later
\* step of execute_task or cancel_execution changes its status, result,
\* error_message or completed_at.
C1_TerminalIsFinal ==
    [][\A e \in DOMAIN executions :
          (executions[e].status \in Terminal /\ e \in DOMAIN executions')
              => Outcome(executions'[e]) = Outcome(executions[e])]_vars

\* C2: cancel_execution on an id whose record is not running (terminal, or no
\* such record) returns false and changes no record, also when the caller
\* decided while the record was still running.
C2_CancelNotRunningIsNoOp ==
    [][(CancelStep /\ StatusOf(cancel.execution_id) # "running")
          => (cancel'.result = Some(FALSE) /\ executions' = executions)]_vars

\* C2 witness: the caller saw the record running, the success write landed
\* first, the cancel returned false and the result is in place
C2_Witness ==
    /\ cancel.pc = "done"
    /\ cancel.seen = "running"
    /\ cancel.result = Some(FALSE)
    /\ StatusOf(cancel.execution_id) = "completed"
    /\ executions[cancel.execution_id].result # Null

\* the records a step changed
Changed == {x \in DOMAIN executions :
               x \notin DOMAIN executions' \/ executions'[x] # executions[x]}

\* C3: cancel_execution on a running record sets status cancelled and
\* completed_at and returns true; it returns true exactly when it changed
\* that one record and no other.
C3_CancelRunning ==
    [][CancelStep =>
          /\ StatusOf(cancel.execution_id) = "running" =>
                /\ executions'[cancel.execution_id].status = "cancelled"
                /\ executions'[cancel.execution_id].completed_at # Null
                /\ cancel'.result = Some(TRUE)
          /\ (cancel'.result = Some(TRUE)) <=> (Changed = {cancel.execution_id})
          /\ cancel'.result \in {Some(TRUE), Some(FALSE)}
          /\ DOMAIN executions' = DOMAIN executions]_vars

\* C3 witness: one record cancelled by a cancel that returned true while
\* another record is still running
C3_Witness ==
    /\ cancel.pc = "done"
    /\ cancel.result = Some(TRUE)
    /\ StatusOf(cancel.execution_id) = "cancelled"
    /\ executions[cancel.execution_id].completed_at # Null
    /\ \E x \in DOMAIN executions : executions[x].status = "running"

\* the insert statement of worker p is the step taken
InsertStep(p) == exec[p].pc = "insert" /\ exec'[p].pc # "insert"

\* the success write of worker p is the step taken
WriteCompletedStep(p) == exec[p].pc = "write_completed" /\ exec'[p].pc = "return_completed"

\* the failure write of worker p is the step taken
WriteFailedStep(p) == exec[p].pc = "write_failed" /\ exec'[p].pc = "return_failed"

\* the insert created exactly one record: running, the caller's task, started_at set
InsertedRunning(p) ==
    LET id == exec[p].execution_id IN
    /\ id \notin DOMAIN executions
    /\ DOMAIN executions' = DOMAIN executions \cup {id}
    /\ \A x \in DOMAIN executions : executions'[x] = executions[x]
    /\ executions'[id].agent_id = exec[p].agent_record[1].id
    /\ executions'[id].status = "running"
    /\ executions'[id].task = JsonDumps(exec[p].task[1])
    /\ executions'[id].started_at = now'
    /\ executions'[id].result = Null
    /\ executions'[id].completed_at = Null

\* the record of worker p is completed with the handler's payload
MovedToCompleted(p) ==
    LET id == exec[p].execution_id IN
    /\ executions'[id].status = "completed"
    /\ executions'[id].result = Some(JsonDumps(exec[p].outcome[1]))
    /\ executions'[id].completed_at # Null

\* the record of worker p is failed with the stringified error
MovedToFailed(p) ==
    LET id == exec[p].execution_id IN
    /\ executions'[id].status = "failed"
    /\ executions'[id].error_message = Some(Str(exec[p].outcome[1]))
    /\ executions'[id].completed_at # Null

\* no record is ever pending
NeverPending == \A e \in DOMAIN executions : executions[e].status # "pending"

\* C4 as stated: execute_task first creates one new running record with the
\* caller's task and started_at; when the handler returns the record is moved
\* to completed with the handler's payload and completed_at.
C4_Original ==
    [][\A p \in Workers :
          /\ InsertStep(p) => InsertedRunning(p)
          /\ WriteCompletedStep(p) =>
                (exec[p].execution_id \in DOMAIN executions' /\ MovedToCompleted(p))]_vars

\* C4 amended: as C4, as long as the agent has not been deleted: an insert
\* for a deleted agent creates no record and answers with an error, and the
\* success write of a record that the agent's deletion removed changes nothing.
C4_ExecuteCompletes ==
    /\ []NeverPending
    /\ [][\A p \in Workers :
          /\ InsertStep(p) =>
                IF exec[p].agent_record[1].id \in DOMAIN agents
                THEN InsertedRunning(p)
                ELSE executions' = executions /\ exec'[p].response[1].status_code = 500
          /\ WriteCompletedStep(p) =>
                IF exec[p].execution_id \in DOMAIN executions
                THEN MovedToCompleted(p) /\ DOMAIN executions' = DOMAIN executions
                ELSE executions' = executions]_vars

\* C4 witness: the handler returned and the record is completed with its payload
C4_Witness ==
    \E p \in Workers :
        /\ exec[p].pc = "return_completed"
        /\ exec[p].execution_id \in DOMAIN executions
        /\ executions[exec[p].execution_id].status = "completed"
        /\ executions[exec[p].execution_id].result = Some(JsonDumps(exec[p].outcome[1]))
        /\ executions[exec[p].execution_id].task = JsonDumps([type |-> "chat", content |-> "hi"])

\* the return of worker p is the step taken
ReturnStep(p) == exec[p].pc \in {"return_completed", "return_failed"} /\ exec'[p].pc = "done"

\* worker p answered normally with the status given
Returned(p, status) ==
    /\ exec'[p].response # Null
    /\ exec'[p].response[1].status_code = 200
    /\ exec'[p].response[1].result.status = status

\* C5 as stated: when the handler raises, execute_task moves the record to
\* failed with the stringified error and completed_at, and returns normally
\* with status failed.
C5_Original ==
    [][\A p \in Workers :
          /\ WriteFailedStep(p) =>
                (exec[p].execution_id \in DOMAIN executions' /\ MovedToFailed(p))
          /\ (ReturnStep(p) /\ exec[p].pc = "return_failed") => Returned(p, "failed")]_vars

\* C5 amended: when the handler raises, execute_task returns normally with
\* status failed and the stringified error; the record, unless the agent's
\* deletion has removed it, is moved to failed with that error and completed_at.
C5_HandlerFailure ==
    [][\A p \in Workers :
          /\ WriteFailedStep(p) =>
                IF exec[p].execution_id \in DOMAIN executions
                THEN MovedToFailed(p) /\ DOMAIN executions' = DOMAIN executions
                ELSE executions' = executions
          /\ (ReturnStep(p) /\ exec[p].pc = "return_failed") =>
                /\ Returned(p, "failed")
                /\ exec'[p].response[1].result.error = Str(exec[p].outcome[1])]_vars

\* C5 witness: the handler raised, the record is failed with the error text
\* and the caller got a normal answer with status failed
C5_Witness ==
    \E p \in Workers :
        /\ exec[p].pc = "done"
        /\ exec[p].response[1].status_code = 200
        /\ exec[p].response[1].result.status = "failed"
        /\ LET id == exec[p].response[1].result.execution_id IN
             /\ id \in DOMAIN executions
             /\ executions[id].status = "failed"
             /\ executions[id].error_message = Some("boom")
             /\ executions[id].completed_at # Null

\* the values execute_task has returned
ReturnValues ==
    {exec[p].response[1].result :
        p \in {q \in Workers : exec[q].response # Null /\ exec[q].response[1].status_code = 200}}

\* C6: every value execute_task returns carries an execution id, a status in
\* {completed, failed}, and exactly one of result and error: result exactly
\* when completed, error exactly when failed.
C6_ReturnShape ==
    \A v \in ReturnValues :
        /\ "execution_id" \in DOMAIN v
        /\ v.execution_id \in ExecIds
        /\ "status" \in DOMAIN v
        /\ v.status \in {"completed", "failed"}
        /\ ("result" \in DOMAIN v) <=> (v.status = "completed")
        /\ ("error" \in DOMAIN v) <=> (v.status = "failed")

\* C6 witness: one call returned completed and another returned failed
C6_Witness ==
    /\ \E v \in ReturnValues : v.status = "completed"
    /\ \E v \in ReturnValues : v.status = "failed"

\* C7: a record has an error_message only if its status is failed.
C7_ErrorOnlyWhenFailed ==
    \A e \in DOMAIN executions :
        executions[e].error_message # Null => executions[e].status = "failed"

\* C7 witness: a failed record with its error text, on which a cancel was tried
C7_Witness ==
    /\ cancel.pc = "done"
    /\ cancel.seen = "running"
    /\ cancel.execution_id \in DOMAIN executions
    /\ executions[cancel.execution_id].status = "failed"
    /\ executions[cancel.execution_id].error_message # Null

\* C8: completed_at is set exactly when the status is completed, failed or
\* cancelled; a running or pending record has none.
C8_CompletedAtIffTerminal ==
    \A e \in DOMAIN executions :
        (executions[e].completed_at # Null) <=> (executions[e].status \in Terminal)

\* C8 witness: a cancelled record with completed_at beside a running one without
C8_Witness ==
    /\ \E e \in DOMAIN executions :
          executions[e].status = "cancelled" /\ executions[e].completed_at # Null
    /\ \E e \in DOMAIN executions :
          executions[e].status = "running" /\ executions[e].completed_at = Null

\* C9: a record has a result only if its status is completed; running,
\* failed and cancelled records have none.
C9_ResultOnlyWhenCompleted ==
    \A e \in DOMAIN executions :
        executions[e].result # Null => executions[e].status = "completed"

\* C9 witness: a cancel took effect on a record whose success write came
\* afterwards, beside a failed record without result
C9_Witness ==
    /\ cancel.pc = "done"
    /\ cancel.result = Some(TRUE)
    /\ StatusOf(cancel.execution_id) = "completed"
    /\ executions[cancel.execution_id].result # Null
    /\ \E e \in DOMAIN executions :
          executions[e].status = "failed" /\ executions[e].result = Null

\* no two stored agents share a name
NamesUnique ==
    \A a, b \in DOMAIN agents : a # b => agents[a].name # agents[b].name

\* creator c's insert for definition d is the step taken
CreateStep(c, d) ==
    /\ create[c].pc \in {"idle", "done"}
    /\ create'[c].agent_data = Some(d)
    /\ create'[c] # create[c]

\* C10: agent names stay unique under any interleaving of create requests; a
\* create for a stored name fails and leaves the store, and so the fields of
\* the first create, as they were.
C10_UniqueNames ==
    /\ []NamesUnique
    /\ [][\A c \in Creators, d \in AgentInputs :
            (CreateStep(c, d) /\ \E a \in DOMAIN agents : agents[a].name = d.name)
                => /\ agents' = agents
                   /\ create'[c].pc = "done"
                   /\ create'[c].response[1].status_code >= 400]_vars

\* C10 witness: two agents stored, and a create of a stored name with other
\* fields was refused while another create request was in progress
C10_Witness ==
    /\ Cardinality(DOMAIN agents) = 2
    /\ \E c \in Creators, a \in DOMAIN agents :
          /\ create[c].pc = "done"
          /\ create[c].response[1].detail = "UniqueViolationError"
          /\ agents[a].name = create[c].agent_data[1].name
          /\ agents[a].role # create[c].agent_data[1].role
    /\ \E c \in Creators : create[c].pc = "generate"

\* the roles of the enumerated set
EnumeratedRoles == {"assistant", "coder", "researcher", "analyst", "specialist"}

\* the characters a name may contain: letters, digits, hyphen, underscore
NameChar(c) == c \in AlnumChars \cup {"-", "_"}

\* the name has a character outside letters, digits, hyphen and underscore
HasDisallowedChar(name) ==
    \E i \in 1..Len(Chars(name)) : ~NameChar(Chars(name)[i])

\* an input create_agent has to refuse
InvalidDefinition(d) ==
    \/ d.name = ""
    \/ HasDisallowedChar(d.name)
    \/ d.role \notin EnumeratedRoles
    \/ d.system_message = ""

\* C11: create_agent validates before it persists: for an input with an empty
\* name, a name with a disallowed character, a role outside the enumerated set
\* or an empty system_message the request fails and the agent store is unchanged.
C11_ValidateBeforePersist ==
    [][\A c \in Creators, d \in InvalidInputs :
          (CreateStep(c, d) /\ InvalidDefinition(d))
              => /\ agents' = agents
                 /\ create'[c].pc = "done"
                 /\ create'[c].response[1].status_code >= 400]_vars

\* the six rules of validation, in their order: which of them d violates
\* when the store holds the names stored
Violates(d, stored) ==
    << "name" \notin DOMAIN d \/ d.name = "",
       "role" \notin DOMAIN d \/ d.role = "",
       "system_message" \notin DOMAIN d \/ d.system_message = "",
       "role" \in DOMAIN d /\ d.role # "" /\ d.role \notin EnumeratedRoles,
       "name" \in DOMAIN d /\ HasDisallowedChar(d.name),
       "name" \in DOMAIN d /\ d.name # "" /\ d.name \in stored >>

\* the rule an entry of the error list reports, 0 for an entry of no rule
RuleOf(e) ==
    CASE e.msg = "Missing required field" /\ e.arg = "name" -> 1
      [] e.msg = "Missing required field" /\ e.arg = "role" -> 2
      [] e.msg = "Missing required field" /\ e.arg = "system_message" -> 3
      [] e.msg = "Invalid role. Must be one of" -> 4
      [] e.msg = "Agent name must contain only letters, numbers, hyphens, and underscores" -> 5
      [] e.msg = "Agent with name already exists" -> 6
      [] OTHER -> 0

\* the step taken is a call of validate
ValidateStep == validation = Null /\ validation' # Null

\* C12: the result of validate has an entry for every rule the definition
\* violates (missing name, missing role, missing system_message, role outside
\* the set, name with a disallowed character, name already stored), the entries
\* follow that order, and valid is true exactly when the list is empty.
C12_AllRulesReported ==
    [][ValidateStep =>
          LET d == validation'[1].agent_data
              r == validation'[1].result
              v == Violates(d, {agents[a].name : a \in DOMAIN agents})
          IN  /\ \A k \in 1..6 : v[k] => \E i \in 1..Len(r.errors) : RuleOf(r.errors[i]) = k
              /\ \A i \in 1..Len(r.errors) : RuleOf(r.errors[i]) \in 1..6
              /\ \A i, j \in 1..Len(r.errors) :
                    i < j => RuleOf(r.errors[i]) < RuleOf(r.errors[j])
              /\ r.valid <=> (r.errors = <<>>)]_vars

\* C12 witness: one result reports a missing field, the role and the stored
\* name together
C12_Witness ==
    /\ validation # Null
    /\ Len(validation[1].result.errors) = 3
    /\ RuleOf(validation[1].result.errors[1]) = 3
    /\ RuleOf(validation[1].result.errors[2]) = 4
    /\ RuleOf(validation[1].result.errors[3]) = 6
    /\ ~validation[1].result.valid

\* creator c's request for a valid definition ends, its row having been inserted
CreateEnds(c) ==
    /\ create[c].pc = "generate"
    /\ create'[c].pc = "done"
    /\ ~InvalidDefinition(create[c].agent_data[1])

\* C13: when create_agent ends for a valid definition whose row it inserted, it
\* has succeeded and the stored record has status created and a code equal to
\* generate applied to that record (create, then generate, then persist).
C13_CodePersisted ==
    [][\A c \in Creators :
          CreateEnds(c) =>
              LET id == create[c].agent[1].id IN
              /\ create'[c].response[1].status_code = 200
              /\ id \in DOMAIN agents' =>
                    /\ agents'[id].status = "created"
                    /\ agents'[id].code = Some(generate_agent_code(agents'[id]))]_vars

\* a list without a repeated element
NoDuplicates(seq) == \A i, j \in 1..Len(seq) : seq[i] = seq[j] => i = j

\* C14: get(id) of an agent made by create_agent returns capabilities that hold
\* each capability of the input exactly once.
C14_CapabilitiesOnce ==
    (got # Null /\ got[1].status_code = 200) =>
        LET body == got[1].body[1] IN
        /\ NoDuplicates(body.capabilities)
        /\ \E d \in AgentInputs \cup InvalidInputs :
              /\ d.name = body.name
              /\ Elems(d.capabilities) = Elems(body.capabilities)

\* the request in progress inserts its agent in this step
FromTemplateInsert ==
    /\ fromt.pc = "create"
    /\ fromt'.pc = "done"
    /\ fromt'.response[1].status_code = 200

\* the capabilities a customization gives, none when it gives none
CustomCapabilities(customizations) ==
    IF "capabilities" \in DOMAIN customizations
    THEN Elems(customizations.capabilities) ELSE {}

\* C16: the agent made from a template has as capabilities the union of the
\* template's and the customization's, each once; its role is the template's
\* unless the customization gives one; its system_message is the template's
\* unless the customization gives one, which then replaces it.
C16_CustomizationPrecedence ==
    [][FromTemplateInsert =>
          LET tpl == CHOOSE x \in DOMAIN templates :
                         templates[x].name = fromt.template_name
              cu == fromt.customizations
              made == fromt'.response[1].body[1]
          IN  /\ Elems(made.capabilities) =
                     Elems(templates[tpl].capabilities.json) \cup CustomCapabilities(cu)
              /\ NoDuplicates(made.capabilities)
              /\ made.role = IF "role" \in DOMAIN cu THEN cu.role ELSE templates[tpl].role
              /\ made.system_message = IF "system_message" \in DOMAIN cu
                                        THEN cu.system_message
                                        ELSE templates[tpl].system_message
              /\ agents'[nextAgentId].role = made.role
              /\ agents'[nextAgentId].system_message = made.system_message
              /\ agents'[nextAgentId].capabilities.json = made.capabilities]_vars

\* C16 witness: an agent made from code_specialist with a capability of the
\* template, a new one and a system_message has the four capabilities, each
\* once, the template's role and the system_message given
C16_Witness ==
    /\ fromt.pc = "done"
    /\ fromt.response[1].status_code = 200
    /\ Elems(fromt.response[1].body[1].capabilities) =
           {"python", "javascript", "debugging", "testing"}
    /\ Len(fromt.response[1].body[1].capabilities) = 4
    /\ fromt.response[1].body[1].role = "coder"
    /\ fromt.response[1].body[1].system_message = "Review code only."
    /\ \E a \in DOMAIN agents : from_orm(agents[a]) = fromt.response[1].body[1]

\* C17: whatever the customizations, the metadata of an agent made from a
\* template has created_from_template equal to the template name asked for and
\* template_id equal to the id of that template.
C17_MetadataRecordsTemplate ==
    [][FromTemplateInsert =>
          LET tpl == CHOOSE x \in DOMAIN templates :
                         templates[x].name = fromt.template_name
              metadata == agents'[nextAgentId].metadata.json
          IN  /\ metadata.created_from_template = fromt.template_name
              /\ metadata.template_id = StrId(templates[tpl].id)]_vars

\* the request in progress is answered in this step, with or without an insert
FromTemplateAnswer ==
    /\ fromt.pc = "create"
    /\ fromt'.pc = "done"

\* C18: an agent built from a template goes through the validation and code
\* generation of create_agent: when the name is already stored or the role
\* given is outside the enumerated set the call fails with the validation
\* errors and no agent is persisted; when it succeeds the stored agent has
\* generated code.
C18_DelegatesToCreateAgent ==
    [][FromTemplateAnswer =>
          /\ (NameTaken(fromt.agent_name) \/ fromt.agent_data[1].role \notin EnumeratedRoles)
                => /\ agents' = agents
                   /\ fromt'.response[1].status_code \in 400..499
          /\ fromt'.response[1].status_code = 200
                => agents'[nextAgentId].code = Some(generate_agent_code(agents'[nextAgentId]))]_vars

\* a request names a template that is not stored, and is answered
UnknownTemplateStep(tn) ==
    /\ fromt.pc \in {"idle", "done"}
    /\ fromt' # fromt
    /\ ~TemplateExists(tn)
    /\ fromt'.pc = "done"

\* C19: create_from_template with a template name that is not stored fails
\* with a not-found outcome, a 404 at the request boundary, and leaves the
\* agent store unchanged.
C19_UnknownTemplateNotFound ==
    [][\A tn \in TemplateNames :
          UnknownTemplateStep(tn) =>
              /\ fromt'.response[1].status_code = 404
              /\ agents' = agents]_vars

\* the names of the seed templates
SeedNames == {DefaultTemplates[i].name : i \in 1..Len(DefaultTemplates)}

\* every stored template is a seed template with the fields of the seed list,
\* and no name is stored twice
OneRowPerSeedName ==
    /\ \A x, y \in DOMAIN templates : templates[x].name = templates[y].name => x = y
    /\ \A x \in DOMAIN templates :
          \E i \in 1..Len(DefaultTemplates) :
              templates[x] = TemplateRow(templates[x].id, DefaultTemplates[i],
                                         templates[x].created_at)

\* a seeding run that has returned has left all three seed templates
SeededWhenDone ==
    \A x \in Seeders :
        seed[x].pc = "done" => {templates[y].name : y \in DOMAIN templates} = SeedNames

\* no step changes or removes a stored template
TemplatesKept ==
    \A x \in DOMAIN templates : x \in DOMAIN templates' /\ templates'[x] = templates[x]

\* C20: templates are immutable once seeded and seeding is idempotent: however
\* often the seeding routine runs, the template set is generic_assistant,
\* code_specialist and research_analyst, one row each; a stored template keeps
\* all its fields, and no step, create_from_template with customizations
\* included, changes or removes one.
C20_TemplatesImmutable ==
    /\ []OneRowPerSeedName
    /\ []SeededWhenDone
    /\ [][TemplatesKept]_vars

\* C20 witness: on a fully seeded store one seeding run was ended by a
\* concurrent insert, another run is passing over the existing rows, and an
\* agent was made from a template with a capabilities customization
C20_Witness ==
    /\ Cardinality(DOMAIN templates) = Len(DefaultTemplates)
    /\ \E x, y \in Seeders :
          /\ seed[x].pc = "failed"
          /\ seed[y] = [pc |-> "check", i |-> Len(DefaultTemplates)]
    /\ fromt.pc = "done"
    /\ fromt.response[1].status_code = 200
    /\ \E a \in DOMAIN agents :
          Elems(agents[a].capabilities.json) = {"python", "javascript", "debugging"}

\* C21: no execution record is orphaned: every execution record references a
\* stored agent, whatever the interleaving of a delete of the agent with an
\* execute_task that is about to insert its record or is still running.
C21_NoOrphanExecution ==
    \A e \in DOMAIN executions : executions[e].agent_id \in DOMAIN agents

\* C21 witness: an agent was deleted while one execute_task for it was running
\* (its record went with the agent) and another was about to insert (refused)
C21_Witness ==
    \E p, q \in Workers :
        /\ exec[p].pc = "handler"
        /\ exec[p].agent_record[1].id \notin DOMAIN agents
        /\ exec[p].execution_id \notin DOMAIN executions
        /\ exec[q].pc = "done"
        /\ exec[q].response[1].status_code = 500

\* a DELETE /api/agents/{id} request for this id is answered in this step
DeleteRequestStep(id) ==
    /\ deleted' # Null
    /\ deleted'[1].agent_id = id
    /\ (deleted' # deleted \/ DOMAIN agents' # DOMAIN agents)

\* C22: delete(id) returns true exactly when an agent with that id was stored
\* and is removed; for an absent id it returns false without raising and
\* leaves the agent and execution stores unchanged, so a second delete(id)
\* changes nothing.
C22_DeleteReportsRemoval ==
    [][\A id \in AgentIds :
          DeleteRequestStep(id) =>
              /\ deleted'[1].success <=> (id \in DOMAIN agents /\ id \notin DOMAIN agents')
              /\ id \notin DOMAIN agents'
              /\ \A a \in DOMAIN agents \ {id} : a \in DOMAIN agents' /\ agents'[a] = agents[a]
              /\ id \notin DOMAIN agents =>
                    /\ ~deleted'[1].success
                    /\ deleted'[1].status_code = 404
                    /\ agents' = agents
                    /\ executions' = executions]_vars

\* C22 witness: a delete of an id already deleted was answered false, the
\* other agent and its execution records still stored
C22_Witness ==
    /\ deleted # Null
    /\ ~deleted[1].success
    /\ deleted[1].agent_id \notin DOMAIN agents
    /\ deleted[1].agent_id \in DOMAIN HistoryAgents
    /\ \E a \in DOMAIN agents : \E e \in DOMAIN executions : executions[e].agent_id = a

\* an Agent.update call for this id and these fields is made in this step
UpdateStep(id, u) ==
    /\ updated' # Null
    /\ updated'[1].agent_id = id
    /\ updated'[1].updates = u
    /\ updated' # updated

\* every other agent, and the execution store, are as before
OthersUnchanged(id) ==
    /\ DOMAIN agents' = DOMAIN agents
    /\ \A a \in DOMAIN agents \ {id} : agents'[a] = agents[a]
    /\ executions' = executions

\* agent id has exactly the fields of u set to u's values and updated_at
\* refreshed, every other field as before
FieldsSet(id, u) ==
    /\ updated'[1].outcome = "row"
    /\ \A f \in DOMAIN agents[id] :
          agents'[id][f] =
              IF f = "updated_at" THEN now'
              ELSE IF f \in {"capabilities", "metadata"} /\ f \in DOMAIN u THEN [json |-> u[f]]
              ELSE IF f \in DOMAIN u THEN u[f]
              ELSE agents[id][f]
    /\ updated'[1].row = Some(agents'[id])

\* C25 as stated: update(id, fields) on a stored agent sets exactly the given
\* fields, refreshes updated_at and leaves everything else unchanged; on an
\* absent id it reports not-found and changes nothing.
C25_Original ==
    [][\A id \in AgentIds, u \in Updates :
          UpdateStep(id, u) =>
              /\ OthersUnchanged(id)
              /\ IF id \in DOMAIN agents
                 THEN FieldsSet(id, u)
                 ELSE updated'[1].outcome = "None" /\ agents' = agents]_vars

\* C25: update(id, fields) on a stored agent sets exactly the given fields,
\* refreshes updated_at and leaves everything else unchanged, unless a given
\* name is stored for another agent: then the call fails and changes nothing.
\* On an absent id it reports not-found and changes nothing.
C25_UpdateSetsGivenFields ==
    [][\A id \in AgentIds, u \in Updates :
          UpdateStep(id, u) =>
              /\ OthersUnchanged(id)
              /\ IF id \notin DOMAIN agents
                 THEN updated'[1].outcome = "None" /\ agents' = agents
                 ELSE IF "name" \in DOMAIN u
                         /\ \E a \in DOMAIN agents \ {id} : agents[a].name = u.name
                 THEN updated'[1].outcome = "UniqueViolationError" /\ agents' = agents
                 ELSE FieldsSet(id, u)]_vars

\* C25 witness: the last update set system_message and capabilities of a
\* stored agent; its role, set by an earlier update, is kept
C25_Witness ==
    /\ updated # Null
    /\ updated[1].outcome = "row"
    /\ "capabilities" \in DOMAIN updated[1].updates
    /\ \E a \in DOMAIN agents :
          /\ a = updated[1].agent_id
          /\ agents[a].capabilities = [json |-> <<"sql", "python">>]
          /\ agents[a].role = "coder"
          /\ agents[a].role # HistoryAgents[a].role
          /\ agents[a].created_at = HistoryAgents[a].created_at

\* the ids of the agents of a page
PageIds(page) == {page[i].id.str : i \in 1..Len(page)}

\* the client's second page is answered in this step
SecondPageStep == listing.pc = "first" /\ listing'.pc = "done"

\* every agent the first call saw is still stored as it was
OnlyInserts ==
    \A a \in DOMAIN listing.seen[1] : a \in DOMAIN agents /\ agents[a] = listing.seen[1][a]

\* C23: when agents are created between list(0, k) and the following
\* list(k, k), the second page has no agent the first page returned and skips
\* no agent that existed at the first call.
C23_StableUnderInserts ==
    [][(SecondPageStep /\ OnlyInserts /\ DOMAIN agents # DOMAIN listing.seen[1]) =>
          LET first == PageIds(listing.first[1])
              second == PageIds(listing'.second[1])
              rest == DOMAIN listing.seen[1] \ first
          IN  /\ first \cap second = {}
              /\ \A a \in rest \ second :
                    /\ Len(listing'.second[1]) = listing.k
                    /\ \A b \in second : agents[b].created_at >= agents[a].created_at]_vars

\* C24: with no write in between, list(0, k) and list(k, k) for k < N return
\* disjoint pages that together are the min(2k, N) most recently created
\* agents in descending creation order, without duplicate or gap, also when
\* agents share a creation time.
C24_PagesPartition ==
    [][(SecondPageStep /\ agents = listing.seen[1] /\ listing.k < Cardinality(DOMAIN agents)) =>
          LET both == listing.first[1] \o listing'.second[1]
              N == Cardinality(DOMAIN agents)
          IN  /\ PageIds(listing.first[1]) \cap PageIds(listing'.second[1]) = {}
              /\ Len(both) = IF 2 * listing.k < N THEN 2 * listing.k ELSE N
              /\ Cardinality(PageIds(both)) = Len(both)
              /\ \A i, j \in 1..Len(both) :
                    i < j => both[i].created_at >= both[j].created_at
              /\ \A a \in DOMAIN agents \ PageIds(both), b \in PageIds(both) :
                    agents[b].created_at >= agents[a].created_at]_vars

\* the records with status completed
CompletedIds == {e \in DOMAIN executions : executions[e].status = "completed"}

\* the sum of the durations of the completed records equals n / d of a second
\* for each of them: n / d is their average
IsAverageOfCompleted(n, d) ==
    /\ d > 0
    /\ n * Cardinality(CompletedIds) = d * SumDurations(CompletedIds)

\* C26: get_runtime_stats does not divide by zero: on zero records its
\* queries yield total 0, an empty breakdown and recent 0; without a completed
\* record the average is 0; otherwise it is the average over the records with
\* status completed only, failed, cancelled and running ones excluded.
C26_StatsAverage ==
    [][/\ (stats.pc \in {"idle", "done"} /\ stats'.pc = "by_status")
            => stats'.total_executions = Some(Cardinality(DOMAIN executions))
       /\ (stats.pc = "by_status" /\ stats'.pc = "recent")
            => /\ DOMAIN executions = {} => stats'.executions_by_status = Some({})
               /\ \A r \in stats'.executions_by_status[1] :
                     /\ r.count > 0
                     /\ r.count = Cardinality({e \in DOMAIN executions :
                                                   executions[e].status = r.status})
       /\ (stats.pc = "recent" /\ stats'.pc = "average")
            => /\ DOMAIN executions = {} => stats'.recent_executions = Some(0)
               /\ stats'.recent_executions[1] <= Cardinality(DOMAIN executions)
       /\ (stats.pc = "average" /\ stats'.pc = "done")
            => LET avg == stats'.response[1].average_execution_time_seconds IN
               IF CompletedIds = {} THEN avg.num = 0
               ELSE IsAverageOfCompleted(avg.num, avg.den)]_vars

\* C26 witness: statistics of a store with failed and cancelled records and
\* one completed record, of duration 2: the average is 2
C26_Witness ==
    /\ stats.pc = "done"
    /\ stats.response[1].total_executions = 4
    /\ stats.response[1].average_execution_time_seconds = [num |-> 2, den |-> 1]
    /\ \E e \in DOMAIN executions : executions[e].status = "failed"
    /\ \E e \in DOMAIN executions : executions[e].status = "cancelled"

\* C26 second witness: statistics of a store without records are all zero
C26_WitnessEmpty ==
    /\ stats.pc = "done"
    /\ executions = <<>>
    /\ stats.response[1] = [total_executions |-> 0, executions_by_status |-> {},
                            recent_executions |-> 0,
                            average_execution_time_seconds |-> [num |-> 0, den |-> 1]]

\* a tool call of this name is answered in this step
ToolStep(name) == tool' # tool /\ tool'.name = name

\* the backend could not be reached in the call answered
Unreachable == tool'.result[1].error = Some("Backend API unavailable")

\* C27: when the backend is unreachable, create_new_agent stores the agent as
\* a JSON file keyed by its name and returns a success with database false,
\* and list_agents returns the file-stored agents with source file; neither
\* returns an error.
C27_FallbackOnUnreachable ==
    [][/\ (ToolStep("create_new_agent") /\ Unreachable) =>
             LET d == tool'.args[1] IN
             /\ tool'.response[1].status = "success"
             /\ tool'.response[1].database = FALSE
             /\ <<"agents", d.name, ".json">> \in DOMAIN files'
             /\ files'[<<"agents", d.name, ".json">>].text.json.name = d.name
             /\ files'[<<"agents", d.name, ".json">>].text.json.role = d.role
             /\ files'[<<"agents", d.name, ".json">>].text.json.system_message
                   = d.system_message
             /\ files'[<<"agents", d.name, ".json">>].text.json.capabilities
                   = d.capabilities
             /\ agents' = agents
       /\ (ToolStep("list_agents") /\ Unreachable) =>
             LET r == tool'.response[1] IN
             /\ r.source = "file"
             /\ r.total = Cardinality(DOMAIN files)
             /\ Len(r.agents) = r.total
             /\ \A p \in DOMAIN files :
                   \E i \in 1..Len(r.agents) :
                       /\ r.agents[i].name = p[2]
                       /\ r.agents[i].source = "file"
                       /\ r.agents[i].role = files[p].text.json.role]_vars

\* C27 witness: with the backend unreachable, list_agents has returned two
\* agents stored as files
C27_Witness ==
    /\ tool.pc = "done"
    /\ tool.name = "list_agents"
    /\ tool.result[1].error = Some("Backend API unavailable")
    /\ tool.response[1].source = "file"
    /\ tool.response[1].total = 2
    /\ agents = <<>>

\* C28: when the backend is reachable and rejects a create, create_new_agent
\* surfaces a failure and writes no agent file.
C28_NoFallbackOnRejection ==
    [][(ToolStep("create_new_agent") /\ ~Unreachable /\ tool'.result[1].error # Null) =>
          /\ tool'.response[1].status # "success"
          /\ files' = files]_vars

PersistedStatus(p) ==
    IF exec[p].execution_id \in DOMAIN executions'
    THEN executions'[exec[p].execution_id].status
    ELSE "none"

\* C30 as stated: when execute_task returns status S for execution id E, the
\* store holds a record E whose status is S, under any interleaving with
\* cancel_execution(E) and with deletion of the agent.
C30_Original ==
    [][\A p \in Workers :
          ReturnStep(p) =>
              PersistedStatus(p) = exec'[p].response[1].result.status]_vars

\* C30 amended: when execute_task returns status S for execution id E, the
\* record E, unless the deletion of its agent has removed it, has status S,
\* under any interleaving with cancel_execution(E).
C30_ReturnedIsPersisted ==
    [][\A p \in Workers :
          ReturnStep(p) =>
              /\ exec'[p].response[1].result.execution_id = exec[p].execution_id
              /\ PersistedStatus(p) \in {"none", exec'[p].response[1].result.status}
              /\ exec[p].execution_id \in DOMAIN executions =>
                    PersistedStatus(p) = exec'[p].response[1].result.status]_vars

\* C30 witness: execute_task returned completed for a record that is stored
\* as completed, after a cancel_execution of that record, called while it was
\* running, matched no row
C30_Witness ==
    \E p \in Workers :
        /\ exec[p].pc = "done"
        /\ exec[p].response # Null
        /\ exec[p].response[1].status_code = 200
        /\ exec[p].response[1].result.status = "completed"
        /\ cancel.pc = "done"
        /\ cancel.seen = "running"
        /\ cancel.result = Some(FALSE)
        /\ cancel.execution_id = exec[p].response[1].result.execution_id
        /\ StatusOf(cancel.execution_id) = "completed"

\* C31: a create request that reports failure persists nothing: when the
\* POST /api/agents handler ends in an error response, the store holds no
\* agent that the request added, also when the failure comes after the insert.
C31_FailurePersistsNothing ==
    [][\A c \in Creators :
          (/\ create'[c] # create[c]
           /\ create'[c].pc = "done"
           /\ create'[c].response[1].status_code >= 400) =>
              \/ create[c].agent = Null
              \/ create[c].agent[1].id \notin DOMAIN agents']_vars

\* the count a breakdown by status gives for one status, 0 without a row
CountOf(by_status, st) ==
    IF \E r \in by_status : r.status = st
    THEN (CHOOSE r \in by_status : r.status = st).count
    ELSE 0

\* the sum of the counts of a breakdown by status
SumOfCounts(by_status) ==
    CountOf(by_status, "pending") + CountOf(by_status, "running")
        + CountOf(by_status, "completed") + CountOf(by_status, "failed")
        + CountOf(by_status, "cancelled")

\* C32: every result of get_runtime_stats is internally consistent: the
\* counts in executions_by_status sum to total_executions and
\* recent_executions is at most total_executions, also when records are
\* inserted or removed by a cascade between its queries.
C32_StatsConsistent ==
    (stats.pc = "done" /\ stats.response # Null) =>
        /\ SumOfCounts(stats.response[1].executions_by_status)
              = stats.response[1].total_executions
        /\ stats.response[1].recent_executions <= stats.response[1].total_executions

====
